---- MODULE Spec2Model ----
(***************************************************************************)
(* Rating and grading engine of the seminar bot:                           *)
(*   src/models/rating.py            calculate_grades                      *)
(*   src/models/database_manager.py  DatabaseManager (users table, rating  *)
(*                                   reads, clears and recomputations)     *)
(*                                                                         *)
(* Numbers.  Scores are integers as in the users table.  A grade is a      *)
(* float in the program; here it is an integer number of thousandths of a  *)
(* grade point (5.0 is 5000, 10.0 is 10000), and a cdf value is an integer *)
(* number of ten-thousandths, so that grade = cdf_value * 10 is the same   *)
(* integer.  round(x, 2) keeps hundredths, i.e. multiples of 10.  The      *)
(* normal CDF is evaluated from a table of Phi at steps of 0.25 with       *)
(* linear interpolation, z being computed in thousandths.  mu and sigma    *)
(* are kept in tenths of a score point.                                    *)
(***************************************************************************)
EXTENDS Integers, Sequences, FiniteSets, TLC

\* ---------------------------------------------------------------- bounds
MaxUsers == 2
MaxGroups == 2
MaxOps == 3
MaxLen == 3
MaxRating == 21
MaxTail == 13

\* ------------------------------------------------------ program constants
EXCLUSION_THRESHOLD == -15
DefaultScore == 100
\* the display limit of format_rating_message
DisplayLimit == 20

Uids == 1..MaxUsers
\* group ids handed out by the groups table start at 1; one more id is kept
\* for requests that name a group that does not exist
Gids == 1..(MaxGroups + 1)
NoGroup == 0
UserTypes == {"student", "seminarist", "admin"}

\* scores the model lets a user reach: both sides of the exclusion
\* threshold, and two further included values
ScoreVals == {-15, -14, 100}
\* scores of the inputs of the pure grade computation
CalcScores == {-20, -15, -14, 50, 100}
\* grade arguments handed to save_rating / update_user_seminar_grade:
\* None, 7.004, 11.0
GradeArgs == {<<>>, <<7004>>, <<11000>>}

\* ------------------------------------------------------------- arithmetic
RECURSIVE SumSeq(_)
SumSeq(s) == IF s = <<>> THEN 0 ELSE Head(s) + SumSeq(Tail(s))

RECURSIVE SumSq(_)
SumSq(s) == IF s = <<>> THEN 0 ELSE Head(s) * Head(s) + SumSq(Tail(s))

\* largest r in lo..hi with r*r <= x  (lo*lo <= x is assumed)
RECURSIVE ISqrtIn(_, _, _)
ISqrtIn(x, lo, hi) ==
  IF lo >= hi THEN lo
  ELSE LET mid == (lo + hi + 1) \div 2
       IN IF mid * mid <= x THEN ISqrtIn(x, mid, hi) ELSE ISqrtIn(x, lo, mid - 1)

ISqrt(x) == ISqrtIn(x, 0, 46340)

\* Phi(k/4) * 10000 for k = 0..16, Phi the standard normal CDF
PhiTab == <<5000, 5987, 6915, 7734, 8413, 8944, 9332, 9599, 9772,
            9878, 9938, 9970, 9987, 9994, 9998, 9999, 10000>>

\* Phi(z) * 10000 for z >= 0 given in thousandths, saturating at z = 4
PhiPos(zm) ==
  IF zm >= 4000 THEN 10000
  ELSE LET k == zm \div 250
           f == zm % 250
       IN PhiTab[k + 1] + ((PhiTab[k + 2] - PhiTab[k + 1]) * f) \div 250

\* variant of NormCdf that loses the sign of score - mu; C8 must tell it apart
NormCdfUnsigned(a, v) ==
  LET a2 == a * a
      q1 == (a2 * 1000) \div v
      r1 == (a2 * 1000) % v
      zsq == q1 * 1000 + (r1 * 1000) \div v
      zm == IF zsq >= 16000000 THEN 4000 ELSE ISqrtIn(zsq, 0, 4000)
  IN PhiPos(zm)

\* stats.norm.cdf(score, loc=mu, scale=sigma) * 10000, where
\* (score - mu) / sigma = a / sqrt(v) with a = n*score - sum and
\* v = n*sumsq - sum^2 > 0
NormCdf(a, v) ==
  LET a2 == a * a
      q1 == (a2 * 1000) \div v
      r1 == (a2 * 1000) % v
      zsq == q1 * 1000 + (r1 * 1000) \div v
      zm == IF zsq >= 16000000 THEN 4000 ELSE ISqrtIn(zsq, 0, 4000)
  IN IF a >= 0 THEN PhiPos(zm) ELSE 10000 - PhiPos(zm)

\* round(x, 2) of a grade held in thousandths
Round2(g) == ((g + 5) \div 10) * 10

\* --------------------------------------------------------- calculate_grades
\* students_data is a sequence of <<user_id, score>>
\* variant of IsIncluded that keeps score == -15 in the computation; C6 must
\* tell it apart
IsIncludedAtThreshold(score) == score >= EXCLUSION_THRESHOLD

IsIncluded(score) == score > EXCLUSION_THRESHOLD
IsExcluded(score) == score <= EXCLUSION_THRESHOLD

\* variant of IncludedOf that lets every pair into the statistics; C19 must
\* tell it apart
IncludedOfAll(data) == data

IncludedOf(data) == SelectSeq(data, LAMBDA p : IsIncluded(p[2]))
ExcludedOf(data) == SelectSeq(data, LAMBDA p : IsExcluded(p[2]))

ScoresOf(data) == [i \in 1..Len(data) |-> data[i][2]]
IdsOf(data) == {data[i][1] : i \in 1..Len(data)}

\* the entry of a student with score <= -15
ExcludedResult == [grade |-> 0, excluded |-> TRUE, cdf_value |-> 0]

\* variant of SameScoreResult that hands out the top grade; C7 must tell it
\* apart
SameScoreResultTop(mu) ==
  [grade |-> 10000, excluded |-> FALSE, cdf_value |-> 10000, mu |-> mu,
   sigma |-> 0]

\* the entry of every included student when sigma == 0
SameScoreResult(mu) ==
  [grade |-> 5000, excluded |-> FALSE, cdf_value |-> 5000, mu |-> mu,
   sigma |-> 0]

\* the entry of an included student otherwise: cdf_value, and grade =
\* cdf_value * 10 (the same integer in the units used here)
NormalResult(cdf, mu, sigma) ==
  [grade |-> cdf, excluded |-> FALSE, cdf_value |-> cdf, mu |-> mu,
   sigma |-> sigma]

\* position of the included pair that decides result[uid] (a later pair
\* replaces an earlier one), 0 if uid has excluded pairs only
LastIncluded(data, uid) ==
  LET idx == {i \in 1..Len(data) : data[i][1] = uid /\ IsIncluded(data[i][2])}
  IN IF idx = {} THEN 0 ELSE CHOOSE i \in idx : \A j \in idx : j <= i

calculate_grades(data) ==
  LET sc == ScoresOf(IncludedOf(data))
      n == Len(sc)
      s == SumSeq(sc)
      v == n * SumSq(sc) - s * s
      mu == (s * 10) \div n
      sigma == ISqrt(v * 100) \div n
      included(x) == IF v = 0 THEN SameScoreResult(mu)
                     ELSE NormalResult(NormCdf(n * x - s, v), mu, sigma)
  IN [uid \in IdsOf(data) |->
        LET i == LastIncluded(data, uid)
        IN IF i # 0 THEN included(data[i][2]) ELSE ExcludedResult]

\* ------------------------------------------------------------------ state
VARIABLES
  users,    \* the users table: user id -> row (present = the row exists)
  groups,   \* ids of the rows of the groups table
  ret,      \* the last operation called, its arguments and what it returned
  nops,     \* number of operations called so far
  calcIn,   \* argument of the last direct call of calculate_grades
  calcOut,  \* its result
  sess      \* per thread: the call it is in, taken one database step at a
            \* time (idle when the thread is in no such call)

\* the two threads that run calls step by step, interleaved with each other
\* and with the calls the other actions run at once
Workers == {"w1", "w2"}

\* a thread: todo = the store operations still to run, the first one being
\* in progress; loaded = that operation has read the rows it works on;
\* queue = the commits it has still to make, each one the set of
\* <<user id, grade>> updates its session holds; done = the updates it has
\* committed; pass = <<grades_dict>> of its last calculate_all_ratings
Idle ==
  [todo |-> <<>>, loaded |-> FALSE, queue |-> <<>>, done |-> {}, pass |-> <<>>]

vars == <<users, groups, ret, nops, calcIn, calcOut, sess>>

NoUser == [present |-> FALSE, score |-> DefaultScore, grade |-> <<>>,
           utype |-> "student", group |-> NoGroup]

\* session.query(User).filter(User.user_type == UserType.STUDENT)
IsStudent(us, u) == us[u].present /\ us[u].utype = "student"
Students(us) == {u \in Uids : IsStudent(us, u)}

\* variant of InScope that never applies the cohort filter; C14 must tell it
\* apart
InScopeUnfiltered(us, gid) == Students(us)

\* ... .filter(User.group_id == group_id) applied only "if group_id:"
InScope(us, gid) ==
  IF gid # NoGroup THEN {u \in Students(us) : us[u].group = gid}
  ELSE Students(us)

\* group.students restricted to students, for an existing group
GroupStudents(us, gid) == {u \in Students(us) : us[u].group = gid}

HasGrade(us, u) == us[u].grade # <<>>
\* variant of GradeOr0 that never reads the stored grade; C12 must tell it
\* apart
GradeIgnored(us, u) == 0

\* "student.seminar_grade or 0"
GradeOr0(us, u) == IF HasGrade(us, u) THEN us[u].grade[1] ELSE 0

\* rows come back in primary-key order
RECURSIVE SeqOfSet(_)
SeqOfSet(S) ==
  IF S = {} THEN <<>>
  ELSE LET m == CHOOSE x \in S : \A y \in S : x <= y
       IN <<m>> \o SeqOfSet(S \ {m})

\* list.sort / sorted with reverse=True on the key (k1, k2): descending and
\* stable (items with equal keys keep their order)
\* variant of KeyGT that compares the grades only; C11 must tell it apart
KeyGTGradeOnly(a, b) == a.k1 > b.k1

KeyGT(a, b) == a.k1 > b.k1 \/ (a.k1 = b.k1 /\ a.k2 > b.k2)

RECURSIVE InsertDesc(_, _)
InsertDesc(e, s) ==
  IF s = <<>> THEN <<e>>
  ELSE IF KeyGT(e, Head(s)) THEN <<e>> \o s
       ELSE <<Head(s)>> \o InsertDesc(e, Tail(s))

RECURSIVE SortDescFrom(_, _)
SortDescFrom(done, rest) ==
  IF rest = <<>> THEN done
  ELSE SortDescFrom(InsertDesc(Head(rest), done), Tail(rest))

SortDesc(s) == SortDescFrom(<<>>, s)

\* variant of WithRanks that counts from 0; C10 must tell it apart
WithRanksFromZero(s) == [i \in 1..Len(s) |-> [s[i].e EXCEPT !.rank = i - 1]]

\* "for rank, entry in enumerate(rating, start=1)"
WithRanks(s) == [i \in 1..Len(s) |-> [s[i].e EXCEPT !.rank = i]]

None == [found |-> FALSE, list |-> <<>>]
Found(l) == [found |-> TRUE, list |-> l]

\* ------------------------------------------------- grade-writing operations
\* DatabaseManager.clear_ratings(group_id)
\* variant of clear_ratings that resets the score together with the grade;
\* C25 must tell it apart
clear_ratings_and_scores(us, gid) ==
  [u \in Uids |->
     IF u \in InScope(us, gid)
     THEN [us[u] EXCEPT !.grade = <<>>, !.score = DefaultScore] ELSE us[u]]

\* DatabaseManager.clear_ratings(group_id)
clear_ratings(us, gid) ==
  [u \in Uids |->
     IF u \in InScope(us, gid) THEN [us[u] EXCEPT !.grade = <<>>] ELSE us[u]]

\* students_data of calculate_all_ratings
StudentsData(us) ==
  LET ids == SeqOfSet(Students(us))
  IN [i \in 1..Len(ids) |-> <<ids[i], us[ids[i]].score>>]

\* the grades calculate_grades assigns on the current scores of all students
FreshGrades(us) == calculate_grades(StudentsData(us))

\* variant of calculate_all_ratings that stores nothing; C2 must tell it apart
calculate_all_ratings_skipped(us) == us

\* DatabaseManager.calculate_all_ratings()
calculate_all_ratings(us) ==
  LET grades_dict == FreshGrades(us)
  IN [u \in Uids |->
        IF u \in DOMAIN grades_dict /\ us[u].present
        THEN [us[u] EXCEPT !.grade = <<grades_dict[u].grade>>]
        ELSE us[u]]

\* variant of recalculate_all_ratings that clears and stops; C1 must tell it
\* apart
recalculate_clear_only(us) == clear_ratings(us, NoGroup)

\* DatabaseManager.recalculate_all_ratings()
recalculate_all_ratings(us) == calculate_all_ratings(clear_ratings(us, NoGroup))

\* variant of recalculate_group_rating that clears the cohort and grades it
\* from the scores of its own members; C13 must tell it apart
recalculate_cohort_only(us, gid) ==
  LET cleared == clear_ratings(us, gid)
      members == SeqOfSet(InScope(us, gid))
      grades == calculate_grades([i \in 1..Len(members) |->
                                    <<members[i], us[members[i]].score>>])
  IN [u \in Uids |->
        IF u \in DOMAIN grades
        THEN [cleared[u] EXCEPT !.grade = <<grades[u].grade>>] ELSE cleared[u]]

\* DatabaseManager.recalculate_group_rating(group_id)
recalculate_group_rating(us, gid) == recalculate_all_ratings(us)

\* DatabaseManager.save_rating(user_id, grade=...)
save_rating(us, uid, g) ==
  IF us[uid].present /\ g # <<>> THEN [us EXCEPT ![uid].grade = g] ELSE us

\* DatabaseManager.update_user_seminar_grade(user_id, grade)
update_user_seminar_grade(us, uid, g) ==
  IF us[uid].present THEN [us EXCEPT ![uid].grade = g] ELSE us

\* ------------------------------------------------------------ rating reads
\* variant of CachedRating that orders the entries by grade alone; C29 must
\* tell it apart
CachedRatingByGrade(rows) ==
  WithRanks(SortDesc(
    [i \in 1..Len(rows) |->
       [k1 |-> Round2(rows[i].grade[1]), k2 |-> 0,
        e |-> [user_id |-> rows[i].user_id, score |-> rows[i].score,
               grade |-> Round2(rows[i].grade[1]),
               excluded |-> rows[i].score <= EXCLUSION_THRESHOLD,
               group_id |-> rows[i].group, rank |-> 0]]]))

\* the list get_ratings_from_db builds from the rows of the graded students
\* of its scope, given in the order the query returns them
CachedRating(rows) ==
  LET rating == [i \in 1..Len(rows) |->
                   LET e == [user_id |-> rows[i].user_id,
                             score |-> rows[i].score,
                             grade |-> Round2(rows[i].grade[1]),
                             excluded |->
                               rows[i].score <= EXCLUSION_THRESHOLD,
                             group_id |-> rows[i].group, rank |-> 0]
                   IN [k1 |-> e.grade, k2 |-> e.score, e |-> e]]
  IN WithRanks(SortDesc(rating))

\* DatabaseManager.get_ratings_from_db(group_id): the cached list, or None
get_ratings_from_db(us, gid) ==
  LET scope == InScope(us, gid)
      has_rating == \E u \in scope : HasGrade(us, u)
      students == SeqOfSet({u \in scope : HasGrade(us, u)})
      rows == [i \in 1..Len(students) |->
                 [user_id |-> students[i], score |-> us[students[i]].score,
                  grade |-> us[students[i]].grade,
                  group |-> us[students[i]].group]]
  IN IF ~has_rating THEN None ELSE Found(CachedRating(rows))

\* variant of MissEntries whose entries report the grade as stored, not
\* rounded; C28 must tell it apart
MissEntriesUnrounded(us, members, gidOf) ==
  LET students == SeqOfSet(members)
      keyed == [i \in 1..Len(students) |->
                  LET u == students[i]
                  IN [k1 |-> GradeOr0(us, u), k2 |-> us[u].score,
                      e |-> [user_id |-> u, score |-> us[u].score, rank |-> 0,
                             grade |-> GradeOr0(us, u),
                             excluded |-> us[u].score <= EXCLUSION_THRESHOLD,
                             cdf_value |-> 0, group_id |-> gidOf[u]]]]
  IN WithRanks(SortDesc(keyed))

\* the list built on the miss path of get_group_rating / get_overall_rating
\* from the rows in members; gidOf[u] is the group_id the entry of u reports
MissEntries(us, members, gidOf) ==
  LET students == SeqOfSet(members)
      keyed == [i \in 1..Len(students) |->
                  LET u == students[i]
                  IN [k1 |-> GradeOr0(us, u), k2 |-> us[u].score,
                      e |-> [user_id |-> u, score |-> us[u].score, rank |-> 0,
                             grade |-> Round2(GradeOr0(us, u)),
                             excluded |-> us[u].score <= EXCLUSION_THRESHOLD,
                             cdf_value |-> 0, group_id |-> gidOf[u]]]]
  IN WithRanks(SortDesc(keyed))

\* variant of get_group_rating that grades the cohort from the scores of its
\* own members and persists those grades; C5 must tell it apart
get_group_rating_cohort_only(us, gs, gid) ==
  LET cached_rating == get_ratings_from_db(us, gid)
      members == SeqOfSet(GroupStudents(us, gid))
      grades == calculate_grades([i \in 1..Len(members) |->
                                    <<members[i], us[members[i]].score>>])
      us2 == [u \in Uids |->
                IF u \in DOMAIN grades
                THEN [us[u] EXCEPT !.grade = <<grades[u].grade>>] ELSE us[u]]
  IN IF cached_rating.found
     THEN [out |-> cached_rating.list, us |-> us, path |-> "cached"]
     ELSE IF gid \notin gs \/ members = <<>>
          THEN [out |-> <<>>, us |-> us2, path |-> "computed"]
          ELSE [out |-> MissEntries(us2, GroupStudents(us, gid),
                                    [u \in Uids |-> gid]),
                us |-> us2, path |-> "computed"]

\* DatabaseManager.get_group_rating(group_id): out = the returned list, us =
\* the users table it leaves, path = the branch taken ("cached": the list
\* of get_ratings_from_db; "computed": calculate_all_ratings was called;
\* "uncomputed": it was not, some student already holding a grade)
get_group_rating(us, gs, gid) ==
  LET cached_rating == get_ratings_from_db(us, gid)
      has_rating == \E u \in Students(us) : HasGrade(us, u)
      us2 == IF has_rating THEN us ELSE calculate_all_ratings(us)
      students == GroupStudents(us2, gid)
      path == IF has_rating THEN "uncomputed" ELSE "computed"
  IN IF cached_rating.found
     THEN [out |-> cached_rating.list, us |-> us, path |-> "cached"]
     ELSE IF gid \notin gs \/ students = {}
          THEN [out |-> <<>>, us |-> us2, path |-> path]
          ELSE [out |-> MissEntries(us2, students, [u \in Uids |-> gid]),
                us |-> us2, path |-> path]

\* variant of get_overall_rating that never takes the cached list; C26 must
\* tell it apart
get_overall_rating_uncached(us) ==
  LET us2 == calculate_all_ratings(us)
  IN [out |-> MissEntries(us2, Students(us2), [u \in Uids |-> us2[u].group]),
      us |-> us2, path |-> "computed"]

\* DatabaseManager.get_overall_rating()
get_overall_rating(us) ==
  LET cached_rating == get_ratings_from_db(us, NoGroup)
      us2 == calculate_all_ratings(us)
      students == Students(us2)
  IN IF cached_rating.found
     THEN [out |-> cached_rating.list, us |-> us, path |-> "cached"]
     ELSE IF students = {}
          THEN [out |-> <<>>, us |-> us2, path |-> "computed"]
          ELSE [out |-> MissEntries(us2, students,
                                    [u \in Uids |-> us2[u].group]),
                us |-> us2, path |-> "computed"]

\* "for entry in rating: if entry['user_id'] == user_id: return entry",
\* None being <<>> and an entry e being <<e>>
FirstEntry(rating, uid) ==
  LET idx == {i \in DOMAIN rating : rating[i].user_id = uid}
  IN IF idx = {} THEN <<>>
     ELSE <<rating[CHOOSE i \in idx : \A j \in idx : i <= j]>>

\* variant of get_user_rating_position that always looks into the overall
\* rating; C15 must tell it apart
get_user_rating_position_overall(us, gs, uid, by_group) ==
  LET r == get_overall_rating(us)
  IN [out |-> FirstEntry(r.out, uid), us |-> r.us]

\* DatabaseManager.get_user_rating_position(user_id, by_group)
get_user_rating_position(us, gs, uid, by_group) ==
  IF by_group
  THEN IF ~us[uid].present \/ us[uid].group = NoGroup
       THEN [out |-> <<>>, us |-> us]
       ELSE LET r == get_group_rating(us, gs, us[uid].group)
            IN [out |-> FirstEntry(r.out, uid), us |-> r.us]
  ELSE LET r == get_overall_rating(us)
       IN [out |-> FirstEntry(r.out, uid), us |-> r.us]

\* "rating[:limit]"
FirstOf(rating, limit) ==
  SubSeq(rating, 1, IF Len(rating) < limit THEN Len(rating) ELSE limit)

\* DatabaseManager.get_top_students_by_group(group_id, limit)
get_top_students_by_group(us, gs, gid, limit) ==
  LET r == get_group_rating(us, gs, gid)
  IN [out |-> FirstOf(r.out, limit), us |-> r.us]

\* DatabaseManager.get_top_students_overall(limit)
get_top_students_overall(us, limit) ==
  LET r == get_overall_rating(us)
  IN [out |-> FirstOf(r.out, limit), us |-> r.us]

\* ------------------------------------------ RatingSystem (src/rating.py)
\* grades_dict of the miss path of RatingSystem.get_group_rating and
\* RatingSystem.get_overall_rating: RatingSystem._calculate_grades, the same
\* algorithm as calculate_grades, on the (id, score) pairs of the students
\* in members
RatingSystem_grades_dict(us, members) ==
  LET students == SeqOfSet(members)
  IN calculate_grades([i \in 1..Len(students) |->
                         <<students[i], us[students[i]].score>>])

\* the list the miss path builds: the students in members sorted by
\* (grade, score) descending, the entry of u reporting group_id gidOf[u]
RatingSystem_rating(us, members, gidOf) ==
  LET students == SeqOfSet(members)
      grades_dict == RatingSystem_grades_dict(us, members)
      keyed == [i \in 1..Len(students) |->
                  LET u == students[i]
                  IN [k1 |-> grades_dict[u].grade, k2 |-> us[u].score,
                      e |-> [user_id |-> u, score |-> us[u].score, rank |-> 0,
                             grade |-> Round2(grades_dict[u].grade),
                             excluded |-> grades_dict[u].excluded,
                             cdf_value |-> grades_dict[u].cdf_value,
                             group_id |-> gidOf[u]]]]
  IN WithRanks(SortDesc(keyed))

\* the users table after the first k entries of rating were handed to
\* save_rating with the grades of grades_dict
RECURSIVE RatingSystem_saved(_, _, _, _)
RatingSystem_saved(us, rating, grades_dict, k) ==
  IF k = 0 THEN us
  ELSE save_rating(RatingSystem_saved(us, rating, grades_dict, k - 1),
                   rating[k].user_id,
                   <<grades_dict[rating[k].user_id].grade>>)

\* the miss path on the students in members: the list returned and the
\* users table after every entry was saved
RatingSystem_compute(us, members, gidOf) ==
  LET rating == RatingSystem_rating(us, members, gidOf)
  IN [out |-> rating,
      us |-> RatingSystem_saved(us, rating,
                                RatingSystem_grades_dict(us, members),
                                Len(rating)),
      path |-> "computed"]

\* RatingSystem.get_group_rating(group_id)
RatingSystem_get_group_rating(us, gs, gid) ==
  LET cached_rating == get_ratings_from_db(us, gid)
      students == GroupStudents(us, gid)
  IN IF cached_rating.found
     THEN [out |-> cached_rating.list, us |-> us, path |-> "cached"]
     ELSE IF gid \notin gs \/ students = {}
          THEN [out |-> <<>>, us |-> us, path |-> "empty"]
          ELSE RatingSystem_compute(us, students, [u \in Uids |-> gid])

\* RatingSystem.get_overall_rating()
RatingSystem_get_overall_rating(us) ==
  LET cached_rating == get_ratings_from_db(us, NoGroup)
      students == Students(us)
  IN IF cached_rating.found
     THEN [out |-> cached_rating.list, us |-> us, path |-> "cached"]
     ELSE IF students = {}
          THEN [out |-> <<>>, us |-> us, path |-> "empty"]
          ELSE RatingSystem_compute(us, students,
                                    [u \in Uids |-> us[u].group])

\* "for group in groups: clear_ratings(group_id=group.id);
\* get_group_rating(group.id)" over the groups in todo
RECURSIVE RatingSystem_recalculate_groups(_, _, _)
RatingSystem_recalculate_groups(us, gs, todo) ==
  IF todo = <<>> THEN us
  ELSE RatingSystem_recalculate_groups(
         RatingSystem_get_group_rating(clear_ratings(us, Head(todo)), gs,
                                       Head(todo)).us,
         gs, Tail(todo))

\* RatingSystem.recalculate_all_ratings()
RatingSystem_recalculate_all_ratings(us, gs) ==
  LET grouped == RatingSystem_recalculate_groups(clear_ratings(us, NoGroup),
                                                 gs, SeqOfSet(gs))
  IN RatingSystem_get_overall_rating(clear_ratings(grouped, NoGroup)).us

\* RatingSystem.recalculate_group_rating(group_id)
RatingSystem_recalculate_group_rating(us, gs, gid) ==
  LET grouped == RatingSystem_get_group_rating(clear_ratings(us, gid), gs,
                                               gid).us
  IN RatingSystem_get_overall_rating(clear_ratings(grouped, NoGroup)).us

\* ------------------------------------------------------ rating statistics
\* np.mean, np.median, np.std(ddof=0), min and max of a non-empty list of
\* integers xs; the results are in units of 1/scale of the unit of xs,
\* rounded down
Mean(xs, scale) == (SumSeq(xs) * scale) \div Len(xs)

RECURSIVE InsertAsc(_, _)
InsertAsc(x, s) ==
  IF s = <<>> THEN <<x>>
  ELSE IF x <= Head(s) THEN <<x>> \o s
       ELSE <<Head(s)>> \o InsertAsc(x, Tail(s))

RECURSIVE SortAsc(_)
SortAsc(s) == IF s = <<>> THEN <<>> ELSE InsertAsc(Head(s), SortAsc(Tail(s)))

Median(xs, scale) ==
  LET srt == SortAsc(xs)
      n == Len(xs)
  IN IF n % 2 = 1 THEN srt[(n + 1) \div 2] * scale
     ELSE ((srt[n \div 2] + srt[n \div 2 + 1]) * scale) \div 2

Std(xs) ==
  LET n == Len(xs)
      s == SumSeq(xs)
  IN ISqrt((n * SumSq(xs) - s * s) * 100) \div n

Min(xs) == CHOOSE x \in {xs[i] : i \in DOMAIN xs} : \A i \in DOMAIN xs : x <= xs[i]
Max(xs) == CHOOSE x \in {xs[i] : i \in DOMAIN xs} : \A i \in DOMAIN xs : x >= xs[i]

\* variant of IncludedScores that keeps the excluded entries; C17 must tell
\* it apart
AllScores(rating) == [i \in DOMAIN rating |-> rating[i].score]

\* "[entry['score'] for entry in rating if not entry.get('excluded', False)]"
IncludedScores(rating) ==
  LET kept == SelectSeq(rating, LAMBDA e : ~e.excluded)
  IN [i \in DOMAIN kept |-> kept[i].score]

\* the record get_rating_statistics builds from the rating it obtained; the
\* scores' mean, median and deviations are in tenths of a score point, the
\* grades' mean and median in thousandths of a grade point (group_name, a
\* display string, is left out)
RatingStatistics(group_id, rating) ==
  IF rating = <<>>
  THEN [group_id |-> group_id, total_students |-> 0, excluded_students |-> 0,
        mean_score |-> 0, median_score |-> 0, std_score |-> 0,
        min_score |-> 0, max_score |-> 0, mean_grade |-> 0,
        median_grade |-> 0]
  ELSE LET scores == [i \in DOMAIN rating |-> rating[i].score]
           grades == [i \in DOMAIN rating |-> rating[i].grade]
           excluded_count == Cardinality({i \in DOMAIN rating :
                                            rating[i].excluded})
           included_scores == IncludedScores(rating)
       IN [group_id |-> group_id,
           total_students |-> Len(rating),
           excluded_students |-> excluded_count,
           included_students |-> Len(rating) - excluded_count,
           mean_score |-> Mean(scores, 10),
           median_score |-> Median(scores, 10),
           std_score |-> IF Len(scores) > 1 THEN Std(scores) ELSE 0,
           min_score |-> Min(scores),
           max_score |-> Max(scores),
           mean_grade |-> Mean(grades, 1),
           median_grade |-> Median(grades, 1),
           mu |-> IF included_scores # <<>> THEN Mean(included_scores, 10)
                  ELSE 0,
           sigma |-> IF Len(included_scores) > 1 THEN Std(included_scores)
                     ELSE 0]

\* DatabaseManager.get_rating_statistics(group_id)
get_rating_statistics(us, gs, gid) ==
  LET r == IF gid # NoGroup THEN get_group_rating(us, gs, gid)
           ELSE get_overall_rating(us)
  IN [out |-> RatingStatistics(gid, r.out), us |-> r.us]

\* --------------------------------------------------- format_rating_message
\* a message is modelled by its parts: empty = the "rating is empty" text,
\* detailed = the two-line blocks of the entries rendered in detail,
\* remainder = <<n>> for the closing "... and n more students" line, <<>>
\* when the message has none
Medal(rank) ==
  IF rank = 1 THEN "gold" ELSE IF rank = 2 THEN "silver"
  ELSE IF rank = 3 THEN "bronze" ELSE ""

\* the block of one entry; "{entry['grade']:.2f}" shows two decimals
DetailOf(entry) ==
  [medal |-> Medal(entry.rank), rank |-> entry.rank,
   user_id |-> entry.user_id, excluded_mark |-> entry.excluded,
   score |-> entry.score, grade |-> Round2(entry.grade)]

MessageOf(rating, shown) ==
  IF rating = <<>> THEN [empty |-> TRUE, detailed |-> <<>>, remainder |-> <<>>]
  ELSE [empty |-> FALSE,
        detailed |-> [i \in DOMAIN shown |-> DetailOf(shown[i])],
        remainder |-> IF Len(rating) > DisplayLimit
                      THEN <<Len(rating) - DisplayLimit>> ELSE <<>>]

\* models.rating.format_rating_message(rating): "for entry in rating"
format_rating_message(rating) == MessageOf(rating, rating)

\* RatingSystem.format_rating_message(rating): "for entry in rating[:20]"
RatingSystem_format_rating_message(rating) ==
  MessageOf(rating, SubSeq(rating, 1, IF Len(rating) < DisplayLimit
                                      THEN Len(rating) ELSE DisplayLimit))

\* ---------------------------------------------------------------- actions
\* every action is one call of a public operation; Budget caps the length
\* of the call sequences explored
Budget == nops < MaxOps

Step(newUsers, newRet) ==
  /\ Budget
  /\ users' = newUsers
  /\ ret' = newRet
  /\ nops' = nops + 1
  /\ UNCHANGED <<groups, calcIn, calcOut, sess>>

\* DatabaseManager.get_or_create_user(user_id, username, user_type)
get_or_create_user(us, u, t) ==
  IF us[u].present
  THEN IF us[u].utype # t /\ t # "student" THEN [us EXCEPT ![u].utype = t]
       ELSE us
  ELSE [us EXCEPT ![u] = [NoUser EXCEPT !.present = TRUE, !.utype = t]]

GetOrCreateUser(u, t) ==
  Step(get_or_create_user(users, u, t),
       [op |-> "get_or_create_user", uid |-> u, utype |-> t])

\* DatabaseManager.update_score(user_id, delta), called without
\* changed_by_id as the module-level update_score does
UpdateScore(u, delta) ==
  Step(IF users[u].present
       THEN [users EXCEPT ![u].score = users[u].score + delta] ELSE users,
       [op |-> "update_score", uid |-> u, delta |-> delta,
        out |-> IF users[u].present THEN "ok" ELSE "ValueError"])

\* variant of SetUserGroup that reports the change and leaves the user in the
\* old group; C27 must tell it apart
SetUserGroupNotStored(u, g) ==
  LET ok == users[u].present /\ g \in groups
  IN Step(users,
          [op |-> "set_user_group", uid |-> u, gid |-> g,
           old |-> users[u].group,
           out |-> IF ok THEN "ok" ELSE "ValueError"])

\* DatabaseManager.set_user_group(user_id, group_id) without changed_by_id
\* (the system change); old is the group it returns as old_group
SetUserGroup(u, g) ==
  LET ok == users[u].present /\ g \in groups
  IN Step(IF ok THEN [users EXCEPT ![u].group = g] ELSE users,
          [op |-> "set_user_group", uid |-> u, gid |-> g,
           old |-> users[u].group,
           out |-> IF ok THEN "ok" ELSE "ValueError"])

\* make_seminarist(user_id), make_admin(user_id), reset_to_student(user_id)
SetType(name, u, t) ==
  Step(IF users[u].present THEN [users EXCEPT ![u].utype = t] ELSE users,
       [op |-> name, uid |-> u, out |-> users[u].present])

MakeSeminarist(u) == SetType("make_seminarist", u, "seminarist")
MakeAdmin(u) == SetType("make_admin", u, "admin")
ResetToStudent(u) == SetType("reset_to_student", u, "student")

SaveRating(u, g) ==
  Step(save_rating(users, u, g), [op |-> "save_rating", uid |-> u, grade |-> g])

UpdateUserSeminarGrade(u, g) ==
  Step(update_user_seminar_grade(users, u, g),
       [op |-> "update_user_seminar_grade", uid |-> u, grade |-> g])

ClearRatings(gid) ==
  Step(clear_ratings(users, gid), [op |-> "clear_ratings", gid |-> gid])

CalculateAllRatings ==
  Step(calculate_all_ratings(users), [op |-> "calculate_all_ratings"])

RecalculateAllRatings ==
  Step(recalculate_all_ratings(users), [op |-> "recalculate_all_ratings"])

RecalculateGroupRating(gid) ==
  Step(recalculate_group_rating(users, gid),
       [op |-> "recalculate_group_rating", gid |-> gid])

GetRatingsFromDb(gid) ==
  Step(users, [op |-> "get_ratings_from_db", gid |-> gid,
               out |-> get_ratings_from_db(users, gid)])

GetGroupRating(gid) ==
  LET r == get_group_rating(users, groups, gid)
  IN Step(r.us, [op |-> "get_group_rating", gid |-> gid, out |-> r.out,
                  path |-> r.path])

GetOverallRating ==
  LET r == get_overall_rating(users)
  IN Step(r.us, [op |-> "get_overall_rating", out |-> r.out, path |-> r.path])

GetUserRatingPosition(u, by_group) ==
  LET r == get_user_rating_position(users, groups, u, by_group)
  IN Step(r.us, [op |-> "get_user_rating_position", uid |-> u,
                  by_group |-> by_group, out |-> r.out])

GetRatingStatistics(gid) ==
  LET r == get_rating_statistics(users, groups, gid)
  IN Step(r.us, [op |-> "get_rating_statistics", gid |-> gid, out |-> r.out])

GetTopStudentsByGroup(gid, limit) ==
  LET r == get_top_students_by_group(users, groups, gid, limit)
  IN Step(r.us, [op |-> "get_top_students_by_group", gid |-> gid,
                  limit |-> limit, out |-> r.out])

GetTopStudentsOverall(limit) ==
  LET r == get_top_students_overall(users, limit)
  IN Step(r.us, [op |-> "get_top_students_overall", limit |-> limit,
                  out |-> r.out])

\* the operations of RatingSystem, each run without interference
RatingSystemGetGroupRating(gid) ==
  LET r == RatingSystem_get_group_rating(users, groups, gid)
  IN Step(r.us, [op |-> "RatingSystem.get_group_rating", gid |-> gid,
                  out |-> r.out, path |-> r.path])

RatingSystemGetOverallRating ==
  LET r == RatingSystem_get_overall_rating(users)
  IN Step(r.us, [op |-> "RatingSystem.get_overall_rating", out |-> r.out,
                  path |-> r.path])

RatingSystemRecalculateAllRatings ==
  Step(RatingSystem_recalculate_all_ratings(users, groups),
       [op |-> "RatingSystem.recalculate_all_ratings"])

RatingSystemRecalculateGroupRating(gid) ==
  Step(RatingSystem_recalculate_group_rating(users, groups, gid),
       [op |-> "RatingSystem.recalculate_group_rating", gid |-> gid])

\* ---------------------------------------------------------------- threads
\* A call taken one database step at a time.  Every "with get_session()"
\* block reads its rows when it queries them and writes at its commit, and
\* the commit updates the columns the block changed: a row whose grade the
\* block set to the value it had read is not written.
StoreOp(name, gid) == [op |-> name, gid |-> gid]

\* "for group in groups:" of RatingSystem.recalculate_all_ratings
RECURSIVE GroupOps(_)
GroupOps(todo) ==
  IF todo = <<>> THEN <<>>
  ELSE <<StoreOp("clear_ratings", Head(todo)),
         StoreOp("RatingSystem.get_group_rating", Head(todo))>>
       \o GroupOps(Tail(todo))

\* the store operations a call runs, in order
ProgramOf(call, gid, gs) ==
  IF call = "recalculate_all_ratings"
  THEN <<StoreOp("clear_ratings", NoGroup),
         StoreOp("calculate_all_ratings", NoGroup)>>
  ELSE IF call = "RatingSystem.recalculate_all_ratings"
  THEN <<StoreOp("clear_ratings", NoGroup)>> \o GroupOps(SeqOfSet(gs))
       \o <<StoreOp("clear_ratings", NoGroup),
            StoreOp("RatingSystem.get_overall_rating", NoGroup)>>
  ELSE <<StoreOp(call, gid)>>

\* the updates the session of clear_ratings(group_id) holds after
\* "for student in students: student.seminar_grade = None"
ClearUpdates(us, gid) ==
  {<<u, <<>>>> : u \in {x \in InScope(us, gid) : HasGrade(us, x)}}

\* variant of ClearCommits that commits after every row; C22 must tell it
\* apart
ClearCommitsPerStudent(us, gid) ==
  LET ups == SeqOfSet({p[1] : p \in ClearUpdates(us, gid)})
  IN [i \in 1..Len(ups) |-> {<<ups[i], <<>>>>}]

\* clear_ratings(group_id) commits once, at the end of its session
ClearCommits(us, gid) == <<ClearUpdates(us, gid)>>

\* the updates the session of calculate_all_ratings holds after
\* "user.seminar_grade = grade" for every student
CalculateUpdates(us) ==
  LET grades_dict == FreshGrades(us)
  IN {<<u, <<grades_dict[u].grade>>>> :
        u \in {x \in DOMAIN grades_dict :
                 us[x].present /\ us[x].grade # <<grades_dict[x].grade>>}}

\* variant of CalculateCommits that commits after every row; C24 must tell it
\* apart
CalculateCommitsPerStudent(us) ==
  LET ups == CalculateUpdates(us)
      ids == SeqOfSet({p[1] : p \in ups})
  IN [i \in 1..Len(ids) |-> {p \in ups : p[1] = ids[i]}]

\* calculate_all_ratings commits once, at the end of its session
CalculateCommits(us) == <<CalculateUpdates(us)>>

\* the save_rating calls of the miss path of RatingSystem.get_group_rating
\* (gid a group) or RatingSystem.get_overall_rating (gid = NoGroup), one
\* commit each, in the order of the list
SaveCommits(us, gs, gid) ==
  LET members == IF gid = NoGroup THEN Students(us)
                 ELSE IF gid \in gs THEN GroupStudents(us, gid) ELSE {}
      rating == RatingSystem_rating(us, members, [u \in Uids |-> gid])
      grades_dict == RatingSystem_grades_dict(us, members)
  IN [i \in 1..Len(rating) |->
        {<<rating[i].user_id, <<grades_dict[rating[i].user_id].grade>>>>}]

\* the thread after its operation in progress finished
Finished(t) ==
  [t EXCEPT !.todo = Tail(t.todo), !.loaded = FALSE, !.queue = <<>>,
            !.done = {}]

\* the thread after the operation in progress read its rows from us
Loaded(t, us, gs) ==
  LET o == Head(t.todo)
      commits == IF o.op = "clear_ratings" THEN ClearCommits(us, o.gid)
                 ELSE IF o.op = "calculate_all_ratings"
                 THEN CalculateCommits(us)
                 ELSE SaveCommits(us, gs, o.gid)
      cached == o.op \in {"RatingSystem.get_group_rating",
                          "RatingSystem.get_overall_rating"}
  IN IF cached
     THEN IF get_ratings_from_db(us, o.gid).found THEN Finished(t)
          ELSE [t EXCEPT !.todo[1].op = "RatingSystem.miss"]
     ELSE IF commits = <<>> THEN Finished(t)
          ELSE [t EXCEPT !.loaded = TRUE, !.queue = commits,
                         !.pass = IF o.op = "calculate_all_ratings"
                                  THEN <<FreshGrades(us)>> ELSE @]

\* the users table after a commit of the updates in ups
Committed(us, ups) ==
  [u \in Uids |->
     IF us[u].present /\ \E p \in ups : p[1] = u
     THEN [us[u] EXCEPT !.grade = (CHOOSE p \in ups : p[1] = u)[2]]
     ELSE us[u]]

\* the thread after the first commit of its queue
AfterCommit(t) ==
  IF Len(t.queue) = 1 THEN Finished(t)
  ELSE [t EXCEPT !.queue = Tail(t.queue), !.done = @ \cup Head(t.queue)]

\* thread w enters a call (gid = NoGroup for a call without group_id)
Begin(w, call, gid) ==
  /\ Budget
  /\ sess[w].todo = <<>>
  /\ sess' = [sess EXCEPT ![w].todo = ProgramOf(call, gid, groups)]
  /\ ret' = [op |-> "begin", call |-> call, gid |-> gid, worker |-> w]
  /\ nops' = nops + 1
  /\ UNCHANGED <<users, groups, calcIn, calcOut>>

\* thread w queries the rows of its operation in progress
Load(w) ==
  /\ sess[w].todo # <<>>
  /\ ~sess[w].loaded
  /\ sess' = [sess EXCEPT ![w] = Loaded(sess[w], users, groups)]
  /\ ret' = [op |-> "load", worker |-> w]
  /\ UNCHANGED <<users, groups, nops, calcIn, calcOut>>

\* thread w commits
Commit(w) ==
  /\ sess[w].loaded
  /\ users' = Committed(users, Head(sess[w].queue))
  /\ sess' = [sess EXCEPT ![w] = AfterCommit(sess[w])]
  /\ ret' = [op |-> "commit", worker |-> w]
  /\ UNCHANGED <<groups, nops, calcIn, calcOut>>

NoCall == [op |-> "none"]

\* a direct call of calculate_grades(students_data)
CalculateGrades(data) ==
  /\ ret = NoCall
  /\ calcIn' = data
  /\ calcOut' = calculate_grades(data)
  /\ ret' = [op |-> "calculate_grades"]
  /\ UNCHANGED <<users, groups, nops, sess>>

\* direct calls of the two formatters
FormatRatingMessage(rating) ==
  /\ ret = NoCall
  /\ ret' = [op |-> "format_rating_message", rating |-> rating,
             out |-> format_rating_message(rating)]
  /\ UNCHANGED <<users, groups, nops, calcIn, calcOut, sess>>

RatingSystemFormatRatingMessage(rating) ==
  /\ ret = NoCall
  /\ ret' = [op |-> "RatingSystem.format_rating_message", rating |-> rating,
             out |-> RatingSystem_format_rating_message(rating)]
  /\ UNCHANGED <<users, groups, nops, calcIn, calcOut, sess>>

\* --------------------------------------------------------- specifications
\* a registered student of group g, as get_or_create_user and set_user_group
\* leave the row
StudentIn(g) == [NoUser EXCEPT !.present = TRUE, !.group = g]

\* where a user starts: 0..MaxGroups is the group (0 for none), MaxGroups + 1
\* stands for a user that has not registered
Places == 0..(MaxGroups + 1)

\* the database of a running course: the groups exist and some users have
\* registered as students (score 100, the column default) and joined groups;
\* no grade is stored yet.  Every way to place the users is an initial
\* state, taken up to a renaming of the users (places do not decrease along
\* the user ids)
Init ==
  /\ \E pl \in [Uids -> Places] :
       /\ \A u, w \in Uids : u <= w => pl[u] <= pl[w]
       /\ users = [u \in Uids |->
                     IF pl[u] > MaxGroups THEN NoUser ELSE StudentIn(pl[u])]
  /\ groups = 1..MaxGroups
  /\ ret = NoCall
  /\ nops = 0
  /\ calcIn = <<>>
  /\ calcOut = <<>>
  /\ sess = [w \in Workers |-> Idle]

ScoreChange ==
  \E u \in Uids : \E s \in ScoreVals \ {users[u].score} :
    UpdateScore(u, s - users[u].score)

RatingRead ==
  \/ \E gid \in {NoGroup} \cup Gids : GetRatingsFromDb(gid)
  \/ \E gid \in Gids : GetGroupRating(gid)
  \/ GetOverallRating

\* the rating engine: score changes, clears, recomputations and reads
Next ==
  \/ ScoreChange
  \/ \E gid \in {NoGroup} \cup Gids : ClearRatings(gid)
  \/ CalculateAllRatings
  \/ RecalculateAllRatings
  \/ \E gid \in Gids : RecalculateGroupRating(gid)
  \/ RatingRead

Spec == Init /\ [][Next]_vars

\* score changes and rating reads only
NextReads == ScoreChange \/ RatingRead

SpecReads == Init /\ [][NextReads]_vars

\* the engine together with the direct grade writes
NextWrites ==
  \/ Next
  \/ \E u \in Uids, g \in GradeArgs : SaveRating(u, g)
  \/ \E u \in Uids, g \in GradeArgs : UpdateUserSeminarGrade(u, g)

SpecWrites == Init /\ [][NextWrites]_vars

\* the engine together with the operations that change who is a student
\* of which group
NextMembers ==
  \/ \E u \in Uids, t \in UserTypes : GetOrCreateUser(u, t)
  \/ \E u \in Uids, g \in Gids : SetUserGroup(u, g)
  \/ \E u \in Uids : MakeSeminarist(u)
  \/ \E u \in Uids : MakeAdmin(u)
  \/ \E u \in Uids : ResetToStudent(u)
  \/ \E gid \in {NoGroup} \cup Gids : ClearRatings(gid)
  \/ CalculateAllRatings
  \/ RatingRead

SpecMembers == Init /\ [][NextMembers]_vars

\* the queries built on the rating reads, over populations that score
\* changes, clears, recomputations and a promotion have shaped
NextQueries ==
  \/ ScoreChange
  \/ \E gid \in Gids : ClearRatings(gid)
  \/ CalculateAllRatings
  \/ \E u \in Uids : MakeSeminarist(u)
  \/ \E u \in Uids, by_group \in BOOLEAN : GetUserRatingPosition(u, by_group)
  \/ \E gid \in {NoGroup} \cup Gids : GetRatingStatistics(gid)

SpecQueries == Init /\ [][NextQueries]_vars

\* the pure grade computation on every list of up to MaxLen students
\* (user ids 1..n in list order)
CalcInputs ==
  UNION {[1..n -> CalcScores] : n \in 0..MaxLen}

InitGrades ==
  /\ users = [u \in Uids |-> NoUser]
  /\ groups = {}
  /\ ret = NoCall
  /\ nops = 0
  /\ calcIn = <<>>
  /\ calcOut = <<>>
  /\ sess = [w \in Workers |-> Idle]

NextGrades ==
  \E sc \in CalcInputs : CalculateGrades([i \in DOMAIN sc |-> <<i, sc[i]>>])

SpecGrades == InitGrades /\ [][NextGrades]_vars

\* the formatters on ranked lists of up to MaxRating entries, the last
\* n - k of them excluded
RatingOf(n, k) ==
  [i \in 1..n |->
     [user_id |-> i, rank |-> i, excluded |-> i > k,
      score |-> IF i > k THEN EXCLUSION_THRESHOLD ELSE DefaultScore,
      grade |-> IF i > k THEN 0 ELSE 5000]]

NextFormat ==
  \E n \in 0..MaxRating : \E k \in 0..n :
    \/ FormatRatingMessage(RatingOf(n, k))
    \/ RatingSystemFormatRatingMessage(RatingOf(n, k))

SpecFormat == InitGrades /\ [][NextFormat]_vars

\* a users table of students in primary-key order: e students with scores
\* -15, -20, ... (excluded), l students with score 50 and h students with
\* score 100, spread over the groups
TailRows(h, l, e) ==
  [i \in 1..(e + l + h) |->
     [user_id |-> i,
      score |-> IF i <= e THEN EXCLUSION_THRESHOLD - 5 * (i - 1)
                ELSE IF i <= e + l THEN 50 ELSE DefaultScore,
      grade |-> <<>>,
      group |-> (i % MaxGroups) + 1]]

\* the rows after recalculate_all_ratings(): every student holds the grade
\* of grades_dict
RecalculatedRows(rows) ==
  LET grades_dict == calculate_grades([i \in 1..Len(rows) |->
                                         <<rows[i].user_id, rows[i].score>>])
  IN [i \in 1..Len(rows) |->
        [rows[i] EXCEPT !.grade = <<grades_dict[rows[i].user_id].grade>>]]

\* recalculate_all_ratings() followed by get_ratings_from_db(group_id) on the
\* table rows; out is the list returned, <<>> for None
RatingAfterRecalculate(rows, gid) ==
  /\ ret = NoCall
  /\ ret' = [op |-> "rating_after_recalculate", gid |-> gid,
             out |-> CachedRating(
                       SelectSeq(RecalculatedRows(rows),
                                 LAMBDA r : gid = NoGroup \/ r.group = gid))]
  /\ UNCHANGED <<users, groups, nops, calcIn, calcOut, sess>>

\* rating reads after a recomputation of populations large enough for a
\* grade below 0.005
NextTail ==
  \E h \in 0..MaxTail, l \in 0..1, e \in 0..2 :
    \E gid \in {NoGroup} \cup (1..MaxGroups) :
      RatingAfterRecalculate(TailRows(h, l, e), gid)

SpecTail == InitGrades /\ [][NextTail]_vars

\* the engine of src/rating.py: score changes, clears and the operations of
\* RatingSystem, one call at a time
NextSystem ==
  \/ ScoreChange
  \/ \E gid \in {NoGroup} \cup Gids : ClearRatings(gid)
  \/ \E gid \in Gids : RatingSystemGetGroupRating(gid)
  \/ RatingSystemGetOverallRating
  \/ RatingSystemRecalculateAllRatings
  \/ \E gid \in Gids : RatingSystemRecalculateGroupRating(gid)

SpecSystem == Init /\ [][NextSystem]_vars

\* the limit passed to get_top_students_*: a top shorter than the rating
TopLimits == {1}

\* the grade save_rating is called with
SaveArgs == {<<7004>>}

\* every rating operation of DatabaseManager, called for the existing
\* groups, and score changes
NextRating ==
  \/ ScoreChange
  \/ \E u \in Uids, g \in SaveArgs : SaveRating(u, g)
  \/ \E gid \in {NoGroup} \cup groups : ClearRatings(gid)
  \/ CalculateAllRatings
  \/ RecalculateAllRatings
  \/ \E gid \in groups : RecalculateGroupRating(gid)
  \/ \E gid \in groups : GetGroupRating(gid)
  \/ GetOverallRating
  \/ \E u \in Uids, by_group \in BOOLEAN : GetUserRatingPosition(u, by_group)
  \/ \E gid \in groups, limit \in TopLimits : GetTopStudentsByGroup(gid, limit)
  \/ \E limit \in TopLimits : GetTopStudentsOverall(limit)
  \/ \E gid \in {NoGroup} \cup groups : GetRatingStatistics(gid)

SpecRating == Init /\ [][NextRating]_vars

\* the database of a course after a full recomputation: students with any
\* scores, placed as in Init, every one holding the grade
\* recalculate_all_ratings() stores
InitRecomputed ==
  /\ \E pl \in [Uids -> Places], sc \in [Uids -> ScoreVals] :
       /\ \A u, w \in Uids : u <= w => pl[u] <= pl[w]
       /\ \A u \in Uids : pl[u] > MaxGroups => sc[u] = DefaultScore
       /\ users = recalculate_all_ratings(
                    [u \in Uids |->
                       IF pl[u] > MaxGroups THEN NoUser
                       ELSE [StudentIn(pl[u]) EXCEPT !.score = sc[u]]])
  /\ groups = 1..MaxGroups
  /\ ret = NoCall
  /\ nops = 0
  /\ calcIn = <<>>
  /\ calcOut = <<>>
  /\ sess = [w \in Workers |-> Idle]

\* cohort changes and cohort reads after a full recomputation
NextCohorts ==
  \/ \E u \in Uids, g \in Gids : SetUserGroup(u, g)
  \/ \E gid \in Gids : GetGroupRating(gid)

SpecCohorts == InitRecomputed /\ [][NextCohorts]_vars

\* two threads in DatabaseManager.recalculate_all_ratings, interleaved step
\* by step with each other, with score changes and with the reads of
\* get_ratings_from_db
NextRecompute ==
  \/ \E w \in Workers : Begin(w, "recalculate_all_ratings", NoGroup)
  \/ \E w \in Workers : Load(w)
  \/ \E w \in Workers : Commit(w)
  \/ ScoreChange
  \/ \E gid \in {NoGroup} \cup Gids : GetRatingsFromDb(gid)

SpecRecompute == Init /\ [][NextRecompute]_vars

\* two threads in the operations of RatingSystem, interleaved step by step
\* with each other, with score changes and with the reads of
\* get_ratings_from_db
NextSystemThreads ==
  \/ \E w \in Workers, gid \in Gids :
       Begin(w, "RatingSystem.get_group_rating", gid)
  \/ \E w \in Workers : Begin(w, "RatingSystem.get_overall_rating", NoGroup)
  \/ \E w \in Workers :
       Begin(w, "RatingSystem.recalculate_all_ratings", NoGroup)
  \/ \E w \in Workers : Load(w)
  \/ \E w \in Workers : Commit(w)
  \/ ScoreChange
  \/ \E gid \in {NoGroup} \cup Gids : GetRatingsFromDb(gid)

SpecSystemThreads == Init /\ [][NextSystemThreads]_vars

\* ------------------------------------------------- claims: calculate_grades
\* the call whose argument and result calcIn and calcOut hold
CalcDone == ret.op = "calculate_grades"
CalcScore(i) == calcIn[i][2]
CalcEntry(i) == calcOut[calcIn[i][1]]
CalcIncluded == {i \in DOMAIN calcIn : CalcScore(i) > -15}

\* C6: for every input list of calculate_grades a participant is marked
\* excluded exactly when its score is <= -15, and every excluded participant
\* gets grade 0.0 and cdf_value 0.0 whatever the other scores are
C6_ExcludedIffAtMostThreshold ==
  CalcDone =>
    \A i \in DOMAIN calcIn :
      /\ CalcEntry(i).excluded <=> CalcScore(i) <= -15
      /\ CalcEntry(i).excluded =>
           CalcEntry(i).grade = 0 /\ CalcEntry(i).cdf_value = 0

\* a call with a score of exactly -15 (excluded), a score of -14 (included)
\* and a further included participant
C6_Witness ==
  /\ CalcDone
  /\ \E i, j, k \in DOMAIN calcIn :
       /\ CalcScore(i) = -15 /\ CalcEntry(i).excluded /\ CalcEntry(i).grade = 0
       /\ CalcScore(j) = -14 /\ ~CalcEntry(j).excluded
       /\ CalcScore(k) = 100 /\ ~CalcEntry(k).excluded

\* C7: when all included participants of a call have the same score (a
\* single included participant next to excluded ones too), every included
\* participant gets grade 5.0, cdf_value 0.5 and excluded = false
C7_SameScoresGetFive ==
  (CalcDone /\ \A i, j \in CalcIncluded : CalcScore(i) = CalcScore(j)) =>
    \A i \in CalcIncluded :
      /\ CalcEntry(i).grade = 5000
      /\ CalcEntry(i).cdf_value = 5000
      /\ CalcEntry(i).excluded = FALSE

\* a call with two included participants of equal score and an excluded one
C7_Witness ==
  /\ CalcDone
  /\ \E i, j, k \in DOMAIN calcIn :
       /\ i # j /\ CalcScore(i) = CalcScore(j) /\ CalcScore(i) > -15
       /\ CalcScore(k) <= -15
       /\ CalcIncluded = {i, j}
       /\ CalcEntry(i).grade = 5000 /\ CalcEntry(j).grade = 5000

\* C8: within one call whose included scores are not all equal, for included
\* a and b, score(a) >= score(b) implies grade(a) >= grade(b)
C8_GradeMonotoneInScore ==
  (CalcDone /\ \E i, j \in CalcIncluded : CalcScore(i) # CalcScore(j)) =>
    \A a, b \in CalcIncluded :
      CalcScore(a) >= CalcScore(b) => CalcEntry(a).grade >= CalcEntry(b).grade

\* a call with three included participants on both sides of the mean, the
\* higher score holding the strictly higher grade
C8_Witness ==
  /\ CalcDone
  /\ \E a, b, c \in CalcIncluded :
       /\ CalcScore(a) > CalcScore(b) /\ CalcScore(b) > CalcScore(c)
       /\ CalcEntry(a).grade > CalcEntry(b).grade
       /\ CalcEntry(b).grade > CalcEntry(c).grade

\* -------------------------------------------------- claims: rating store
ReadOps == {"get_overall_rating", "get_group_rating"}

\* the list the call recorded in r returned, if it was a rating read
ReturnedList(r) ==
  IF r.op \in ReadOps THEN r.out
  ELSE IF r.op = "get_ratings_from_db" THEN r.out.list ELSE <<>>

\* the grade calculate_grades assigns to student u on the current scores of
\* all students
Fresh(us, u) == FreshGrades(us)[u].grade

StoredFresh(us) == \A u \in Students(us) : us[u].grade = <<Fresh(us, u)>>
NoStudentGrade(us) == \A u \in Students(us) : ~HasGrade(us, u)
StoredAll(us) == \A u \in Students(us) : HasGrade(us, u)

\* C10: every list returned by get_overall_rating, get_group_rating or
\* get_ratings_from_db, cached or computed, carries the ranks 1..len(list) in
\* list order; excluded participants are ranked like the others and the
\* ranks of a cohort list restart at 1
C10_RanksDense ==
  \A i \in DOMAIN ReturnedList(ret) : ReturnedList(ret)[i].rank = i

\* a cohort list of two entries, the second an excluded participant of rank 2
C10_Witness ==
  /\ ret.op = "get_group_rating"
  /\ Len(ret.out) = 2
  /\ ret.out[1].rank = 1 /\ ~ret.out[1].excluded
  /\ ret.out[2].rank = 2 /\ ret.out[2].excluded

\* C1 as stated: after recalculate_all_ratings() every student's stored
\* grade, and the grade of every entry of an immediately following
\* get_overall_rating(), equals the grade calculate_grades assigns on the
\* current scores of all students
C1_AsStated ==
  ret.op = "recalculate_all_ratings" =>
    /\ StoredFresh(users)
    /\ LET rating == get_overall_rating(users).out
       IN \A i \in DOMAIN rating :
            rating[i].grade = Fresh(users, rating[i].user_id)

\* C1, amended: the stored grades are those grades; the entries of the
\* following get_overall_rating() carry them rounded to two decimals
C1_RecalculateIsFresh ==
  ret.op = "recalculate_all_ratings" =>
    /\ StoredFresh(users)
    /\ LET rating == get_overall_rating(users).out
       IN \A i \in DOMAIN rating :
            rating[i].grade = Round2(Fresh(users, rating[i].user_id))

\* recalculate_all_ratings() has returned after a score change, two students
\* hold grades that round(grade, 2) changes
C1_Witness ==
  /\ ret.op = "recalculate_all_ratings"
  /\ \E u, w \in Students(users) :
       /\ users[u].score # DefaultScore
       /\ u # w
       /\ HasGrade(users, u) /\ Round2(users[u].grade[1]) # users[u].grade[1]
       /\ HasGrade(users, w) /\ Round2(users[w].grade[1]) # users[w].grade[1]
       /\ Len(get_overall_rating(users).out) = 2

\* the entries of list l that report student u
EntriesOf(l, u) == {i \in DOMAIN l : l[i].user_id = u}

\* C5 as stated: from a state in which no student has a stored grade,
\* get_group_rating(g) returns for every member of g the grade
\* calculate_grades yields on the scores of all students, and persists grades
\* for the whole population; the ranks are cohort-local
C5_AsStated ==
  [][(ret'.op = "get_group_rating" /\ NoStudentGrade(users)) =>
       /\ \A u \in GroupStudents(users, ret'.gid) :
            \E i \in DOMAIN ret'.out :
              /\ EntriesOf(ret'.out, u) = {i}
              /\ ret'.out[i].grade = Fresh(users, u)
       /\ StoredFresh(users')
       /\ \A i \in DOMAIN ret'.out : ret'.out[i].rank = i]_vars

\* C5, amended: the returned grade is that population-wide grade rounded to
\* two decimals; the stored grades are unrounded
C5_GroupReadGradesPopulation ==
  [][(ret'.op = "get_group_rating" /\ NoStudentGrade(users)) =>
       /\ \A u \in GroupStudents(users, ret'.gid) :
            \E i \in DOMAIN ret'.out :
              /\ EntriesOf(ret'.out, u) = {i}
              /\ ret'.out[i].grade = Round2(Fresh(users, u))
       /\ StoredFresh(users')
       /\ \A i \in DOMAIN ret'.out : ret'.out[i].rank = i]_vars

\* get_group_rating(g) has computed the grades: g has one member, ranked 1,
\* whose grade differs from the 5.0 its own score alone would give, and a
\* student outside g holds a grade too
C5_Witness ==
  /\ ret.op = "get_group_rating" /\ ret.path = "computed"
  /\ Len(ret.out) = 1 /\ ret.out[1].rank = 1
  /\ ret.out[1].grade # 5000
  /\ ret.out[1].grade = Round2(users[ret.out[1].user_id].grade[1])
  /\ ret.out[1].grade # users[ret.out[1].user_id].grade[1]
  /\ \E w \in Students(users) : users[w].group # ret.gid /\ HasGrade(users, w)

C3_AsStated ==
  [][(/\ ret.op = "clear_ratings" /\ ret.gid \in groups
      /\ GroupStudents(users, ret.gid) # {}
      /\ \E w \in Students(users) :
           users[w].group \in groups \ {ret.gid} /\ HasGrade(users, w)
      /\ ret'.op = "get_group_rating" /\ ret'.gid = ret.gid) =>
       \A u \in GroupStudents(users, ret.gid) :
         /\ users'[u].grade = <<Fresh(users, u)>>
         /\ \E i \in EntriesOf(ret'.out, u) :
              ret'.out[i].grade = Round2(Fresh(users, u))]_vars

\* C4 as stated: whenever get_ratings_from_db(scope) returns a list, the list
\* holds exactly one entry for every student currently in the scope
C4_AsStated ==
  (ret.op = "get_ratings_from_db" /\ ret.out.found) =>
    /\ \A u \in InScope(users, ret.gid) :
         Cardinality(EntriesOf(ret.out.list, u)) = 1
    /\ \A i \in DOMAIN ret.out.list :
         ret.out.list[i].user_id \in InScope(users, ret.gid)

\* C9 as stated: every stored grade is null or within [0, 10], and every
\* grade of a returned rating entry is within [0, 10]
C9_AsStated ==
  /\ \A u \in Uids :
       users[u].present /\ HasGrade(users, u) =>
         users[u].grade[1] >= 0 /\ users[u].grade[1] <= 10000
  /\ \A i \in DOMAIN ReturnedList(ret) :
       ReturnedList(ret)[i].grade >= 0 /\ ReturnedList(ret)[i].grade <= 10000

\* C11: in every list returned by get_overall_rating, get_group_rating or
\* get_ratings_from_db, an entry a placed before an entry b has a.grade >
\* b.grade, or a.grade = b.grade and a.score >= b.score, on the grades the
\* list reports
C11_OrderedByGradeThenScore ==
  LET l == ReturnedList(ret)
  IN \A i, j \in DOMAIN l :
       i < j => \/ l[i].grade > l[j].grade
                \/ l[i].grade = l[j].grade /\ l[i].score >= l[j].score

\* a returned list in which two entries of equal grade are ordered by their
\* scores against the order of their user ids
C11_Witness ==
  LET l == ReturnedList(ret)
  IN /\ Len(l) = 2
     /\ l[1].grade = l[2].grade /\ l[1].score > l[2].score
     /\ l[1].user_id > l[2].user_id

\* what C12 compares of a list: (user_id, rank, grade, excluded) per entry
Shown(l) ==
  [i \in DOMAIN l |-> <<l[i].user_id, l[i].rank, l[i].grade, l[i].excluded>>]

\* C12: a call of get_overall_rating() (of get_group_rating(g)) repeated with
\* no change in between returns the same sequence of (user_id, rank, grade,
\* excluded), also when the first call computed and persisted the grades and
\* the second reads the stored ones
C12_RepeatedReadSame ==
  /\ ret.op = "get_overall_rating" =>
       Shown(get_overall_rating(users).out) = Shown(ret.out)
  /\ ret.op = "get_group_rating" =>
       Shown(get_group_rating(users, groups, ret.gid).out) = Shown(ret.out)

\* get_overall_rating() has computed the grades of two students, grades that
\* rounding changes, and the same call would now take the cached path
C12_Witness ==
  /\ ret.op = "get_overall_rating" /\ ret.path = "computed"
  /\ get_overall_rating(users).path = "cached"
  /\ Len(ret.out) = 2
  /\ \A i \in DOMAIN ret.out :
       users[ret.out[i].user_id].grade # <<ret.out[i].grade>>

\* C13: from any state and for any cohort id g, existing or not,
\* recalculate_group_rating(g) leaves for every participant the stored grade
\* recalculate_all_ratings() would leave from the same state
C13_GroupRecalcIsGlobal ==
  [][ret'.op = "recalculate_group_rating" =>
       \A u \in Uids :
         users'[u].grade = recalculate_all_ratings(users)[u].grade]_vars

\* recalculate_group_rating(g) has returned for an existing cohort g with a
\* member; a student outside g holds a grade other than 5.0, which the
\* scores of g alone or of the outsiders alone would not give
C13_Witness ==
  /\ ret.op = "recalculate_group_rating" /\ ret.gid \in groups
  /\ GroupStudents(users, ret.gid) # {}
  /\ \E w \in Students(users) :
       /\ users[w].group # ret.gid
       /\ HasGrade(users, w) /\ users[w].grade[1] \notin {0, 5000}
       /\ Cardinality(Students(users) \ GroupStudents(users, ret.gid)) = 1

\* C14: clear_ratings(group_id=g) sets the stored grade of every student of
\* cohort g to null and leaves the stored grade of every student outside g
\* unchanged; clear_ratings() sets the stored grade of every student to null
C14_ClearFrame ==
  [][ret'.op = "clear_ratings" =>
       \A u \in Students(users) :
         IF ret'.gid = NoGroup \/ users[u].group = ret'.gid
         THEN users'[u].grade = <<>>
         ELSE users'[u].grade = users[u].grade]_vars

\* clear_ratings(group_id=g) has returned: a member of g has no grade, a
\* student outside g still holds one
C14_Witness ==
  /\ ret.op = "clear_ratings" /\ ret.gid \in groups
  /\ \E u \in GroupStudents(users, ret.gid) : ~HasGrade(users, u)
  /\ \E w \in Students(users) : users[w].group # ret.gid /\ HasGrade(users, w)

\* C15: get_user_rating_position(u, by_group) returns None when u does not
\* exist, when by_group is true and u has no cohort, or when u has no entry
\* in the selected list; otherwise it returns the entry of u from u's cohort
\* rating (by_group true) or from the overall rating (by_group false)
C15_PositionFromSelectedList ==
  [][ret'.op = "get_user_rating_position" =>
       IF \/ ~users[ret'.uid].present
          \/ ret'.by_group /\ users[ret'.uid].group = NoGroup
       THEN ret'.out = <<>>
       ELSE \A selected \in
                 {IF ret'.by_group
                  THEN get_group_rating(users, groups,
                                        users[ret'.uid].group).out
                  ELSE get_overall_rating(users).out} :
              IF EntriesOf(selected, ret'.uid) = {} THEN ret'.out = <<>>
              ELSE \E i \in EntriesOf(selected, ret'.uid) :
                     ret'.out = <<selected[i]>>]_vars

\* a by-cohort position of rank 1 returned for a student who is second in
\* the overall rating
C15_Witness ==
  /\ ret.op = "get_user_rating_position" /\ ret.by_group
  /\ ret.out # <<>> /\ ret.out[1].user_id = ret.uid /\ ret.out[1].rank = 1
  /\ LET overall == get_overall_rating(users).out
     IN \E i \in EntriesOf(overall, ret.uid) : overall[i].rank = 2

\* the rating get_rating_statistics(gid) obtains in state us
StatisticsRating(us, gs, gid) ==
  IF gid # NoGroup THEN get_group_rating(us, gs, gid).out
  ELSE get_overall_rating(us).out

\* the fields of the statistics contract that are counts or numbers
StatisticsFields ==
  {"total_students", "excluded_students", "included_students", "mean_score",
   "median_score", "std_score", "min_score", "max_score", "mean_grade",
   "median_grade", "mu", "sigma"}

\* C16 as stated: when the rating of the requested scope is empty,
\* get_rating_statistics returns a record that holds every field of the
\* statistics contract, the included-student count, mu and sigma too, each
\* count and each numeric field being 0
C16_AsStated ==
  [][ret'.op = "get_rating_statistics" =>
       \A rating \in {StatisticsRating(users, groups, ret'.gid)} :
         rating = <<>> =>
           \A f \in StatisticsFields :
             f \in DOMAIN ret'.out /\ ret'.out[f] = 0]_vars

\* the statistics st are those C17 states for the non-empty rating
StatisticsMatch(st, rating) ==
  LET all == {rating[i].score : i \in DOMAIN rating}
      incl == SelectSeq([i \in DOMAIN rating |-> rating[i].score],
                        LAMBDA x : x > -15)
      n == Len(incl)
      sum == SumSeq(incl)
  IN /\ st.total_students = Len(rating)
     /\ st.excluded_students =
          Cardinality({i \in DOMAIN rating : rating[i].score <= -15})
     /\ st.included_students = st.total_students - st.excluded_students
     /\ st.min_score \in all /\ \A x \in all : st.min_score <= x
     /\ st.max_score \in all /\ \A x \in all : st.max_score >= x
     /\ st.mu = IF n = 0 THEN 0 ELSE (sum * 10) \div n
     /\ st.sigma = IF n <= 1 THEN 0
                   ELSE ISqrt((n * SumSq(incl) - sum * sum) * 100) \div n

\* C17: for a non-empty rating get_rating_statistics reports total_students
\* = number of entries, excluded_students = number of entries with score <=
\* -15, included_students = their difference, min_score / max_score over all
\* entries, and mu / sigma from the scores of the non-excluded entries only
C17_StatisticsOfRating ==
  [][ret'.op = "get_rating_statistics" =>
       \A rating \in {StatisticsRating(users, groups, ret'.gid)} :
         rating # <<>> => StatisticsMatch(ret'.out, rating)]_vars

\* statistics of a rating of two entries, one of them excluded: mu is the
\* score of the included entry and differs from the mean score
C17_Witness ==
  /\ ret.op = "get_rating_statistics"
  /\ "mu" \in DOMAIN ret.out
  /\ ret.out.total_students = 2 /\ ret.out.excluded_students = 1
  /\ ret.out.included_students = 1
  /\ ret.out.mu = ret.out.max_score * 10
  /\ ret.out.mu # ret.out.mean_score
  /\ ret.out.sigma = 0 /\ ret.out.std_score > 0

\* C18 as stated: format_rating_message renders at most 20 entries in
\* detail and, for a rating of more than 20 entries, gives the remaining
\* len(rating) - 20 as a count, so that detailed entries plus that count
\* equal the length of the rating; a medal is attached exactly to ranks 1,
\* 2 and 3 and the exclusion marker exactly to excluded entries
C18_AsStated ==
  ret.op \in {"format_rating_message", "RatingSystem.format_rating_message"} =>
    LET msg == ret.out
        rest == IF msg.remainder = <<>> THEN 0 ELSE msg.remainder[1]
    IN /\ Len(msg.detailed) <= 20
       /\ Len(ret.rating) > 20 => msg.remainder = <<Len(ret.rating) - 20>>
       /\ Len(msg.detailed) + rest = Len(ret.rating)
       /\ \A i \in DOMAIN msg.detailed :
            /\ msg.detailed[i].medal # "" <=> ret.rating[i].rank \in {1, 2, 3}
            /\ msg.detailed[i].excluded_mark <=> ret.rating[i].excluded

\* scores <= -15 put in place of the excluded scores
ReplacementScores == {-1000, -20, -15}

\* C19: the grade, cdf_value, mu and sigma of each included participant of
\* an input list are those calculate_grades assigns on the list without its
\* excluded participants, and on the list with the excluded scores replaced
\* by any other values <= -15
C19_ExcludedDoNotInfluence ==
  CalcDone =>
    LET excl == {i \in DOMAIN calcIn : CalcScore(i) <= -15}
        without == calculate_grades(SelectSeq(calcIn, LAMBDA p : p[2] > -15))
    IN \A i \in CalcIncluded :
         /\ without[calcIn[i][1]] = CalcEntry(i)
         /\ \A repl \in [excl -> ReplacementScores] :
              LET replaced == [j \in DOMAIN calcIn |->
                                 IF j \in excl THEN <<calcIn[j][1], repl[j]>>
                                 ELSE calcIn[j]]
              IN calculate_grades(replaced)[calcIn[i][1]] = CalcEntry(i)

\* a call with an excluded participant and two included ones of different
\* scores, whose grades come from the two included scores alone
C19_Witness ==
  /\ CalcDone
  /\ \E i, j, k \in DOMAIN calcIn :
       /\ CalcScore(i) <= -15 /\ CalcEntry(i).excluded
       /\ CalcScore(j) > CalcScore(k) /\ CalcScore(k) > -15
       /\ CalcEntry(j).grade = 8413 /\ CalcEntry(k).grade = 1587
       /\ CalcEntry(j).mu = 5 * (CalcScore(j) + CalcScore(k))

\* C20 as stated: after any sequence of score changes, recomputations,
\* clears and reads, every entry returned by get_overall_rating() or
\* get_group_rating(g) whose excluded flag is true has grade exactly 0.0
C20_AsStated ==
  ret.op \in ReadOps =>
    \A i \in DOMAIN ret.out : ret.out[i].excluded => ret.out[i].grade = 0

\* ------------------------------------------------- claims: RatingSystem
\* C21: RatingSystem.get_group_rating(g) on a cache miss grades the members
\* of g on the included scores of the whole population: the grade of every
\* entry it returns is the rounded grade a fresh overall computation gives
\* that student, and the grade it stores is that grade
C21_AsStated ==
  [][(ret'.op = "RatingSystem.get_group_rating" /\ ret'.path = "computed") =>
       \A i \in DOMAIN ret'.out :
         \A u \in {ret'.out[i].user_id} :
           /\ ret'.out[i].grade = Round2(Fresh(users, u))
           /\ users'[u].grade = <<Fresh(users, u)>>]_vars

\* ------------------------------------------------- claims: concurrency
\* some thread is inside a call
InCall == \E w \in Workers : sess[w].todo # <<>>

\* the students are all graded or all ungraded
Uniform(us) == StoredAll(us) \/ NoStudentGrade(us)

BothCompleted ==
  \A w \in Workers : sess[w].todo = <<>> /\ sess[w].pass # <<>>

\* every student holds the grade the pass of thread w computed for it
StoredByPass(w) ==
  \A u \in Students(users) :
    /\ u \in DOMAIN sess[w].pass[1]
    /\ users[u].grade = <<sess[w].pass[1][u].grade>>

\* C24: once two concurrent recalculate_all_ratings() calls have both
\* completed, with score changes between their steps, the stored grades of
\* all students are the grades_dict of one calculate_all_ratings pass
C24_OnePassWins == BothCompleted => \E w \in Workers : StoredByPass(w)

\* both calls completed, their passes computed different grades from
\* different scores, and the pass of one of them is what is stored
C24_Witness ==
  /\ BothCompleted
  /\ Cardinality(Students(users)) >= 2
  /\ \E u \in Students(users) :
       sess["w1"].pass[1][u].grade # sess["w2"].pass[1][u].grade
  /\ StoredByPass("w1")

\* the list has an entry for the student of update p with the grade of p
HoldsNew(list, p) ==
  \E i \in DOMAIN list :
    list[i].user_id = p[1] /\ <<list[i].grade>> = <<Round2(p[2][1])>>

\* the list holds the new grade of a student thread t has saved and not the
\* new grade of a student it has still to save
PartialFor(list, t) ==
  /\ \E p \in t.done : HoldsNew(list, p)
  /\ \E k \in DOMAIN t.queue : \E q \in t.queue[k] : ~HoldsNew(list, q)

\* C23 as stated: a recomputation by RatingSystem replaces the grades
\* wholesale: no get_ratings_from_db running concurrently with it returns a
\* list that holds the new grades of only some of the students being
\* recomputed
C23_AsStated ==
  [][ret'.op = "get_ratings_from_db" =>
       \A w \in Workers : ~PartialFor(ret'.out.list, sess[w])]_vars

\* ------------------------------------------------------- claims: frames
RatingOps ==
  {"calculate_all_ratings", "recalculate_all_ratings",
   "recalculate_group_rating", "clear_ratings", "save_rating",
   "get_overall_rating", "get_group_rating", "get_user_rating_position",
   "get_top_students_by_group", "get_top_students_overall",
   "get_rating_statistics"}

\* what a row holds besides the stored grade
RowFrame(row) == [row EXCEPT !.grade = <<>>]

\* C25: no rating operation changes the score, the cohort membership or
\* the user type of any participant, nor creates or deletes a row; the
\* stored grade is the only field it writes
C25_OnlyGradeWritten ==
  [][ret'.op \in RatingOps =>
       /\ groups' = groups
       /\ \A u \in Uids : RowFrame(users'[u]) = RowFrame(users[u])]_vars

\* a rating operation that wrote the grade of a student whose score had
\* been changed: the changed score is still there
C25_Witness ==
  /\ ret.op \in RatingOps \ {"save_rating"}
  /\ \E u \in Students(users) :
       HasGrade(users, u) /\ users[u].score # DefaultScore

QueryOps ==
  {"get_overall_rating", "get_group_rating", "get_user_rating_position",
   "get_top_students_by_group", "get_top_students_overall",
   "get_rating_statistics"}

\* the cohort the call recorded in r asks for on the users table us, NoGroup
\* if it asks for the whole population
RequestedScope(r, us) ==
  IF r.op \in {"get_group_rating", "get_top_students_by_group",
               "get_rating_statistics"}
  THEN r.gid
  ELSE IF r.op = "get_user_rating_position" /\ r.by_group
       THEN us[r.uid].group
       ELSE NoGroup

\* C26: a rating query called while some student of the requested scope
\* holds a non-null grade recomputes nothing: the stored grade of every
\* participant stays as it is
C26_QueriesKeepCachedGrades ==
  [][(/\ ret'.op \in QueryOps
      /\ \E u \in InScope(users, RequestedScope(ret', users)) :
           HasGrade(users, u)) =>
       \A u \in Uids : users'[u].grade = users[u].grade]_vars

\* a query answered while the stored grades were not the ones a
\* recomputation would store: they are still there after it
C26_Witness ==
  /\ ret.op \in QueryOps \ {"get_overall_rating", "get_group_rating"}
  /\ ret.out # <<>>
  /\ StoredAll(users)
  /\ \E u \in Students(users) : users[u].grade # <<Fresh(users, u)>>

\* ---------------------------------------------- claims: cohort membership
\* the last call moved a student from one existing group to another, and
\* every student holds the grade a recomputation on the current scores
\* would store
MovedCase ==
  /\ ret.op = "set_user_group" /\ ret.out = "ok"
  /\ ret.old \in groups /\ ret.gid # ret.old
  /\ IsStudent(users, ret.uid)
  /\ StoredFresh(users)

\* the call that follows reads the old or the new cohort of the moved student
CohortReadAfterMove ==
  MovedCase /\ ret'.op = "get_group_rating" /\ ret'.gid \in {ret.old, ret.gid}

\* the list of the new cohort has the moved student, the list of the old one
\* has not, and the ranks are 1..len
MovedAndDense ==
  /\ ret'.gid = ret.gid <=> \E i \in DOMAIN ret'.out :
                              ret'.out[i].user_id = ret.uid
  /\ \A i \in DOMAIN ret'.out : ret'.out[i].rank = i

\* C27 as stated: after a full recomputation and a move of student u from
\* cohort A to cohort B, get_group_rating(B) contains u, get_group_rating(A)
\* does not, both carry the ranks 1..len and every grade reported equals the
\* grade a fresh recalculate_all_ratings() would store
C27_AsStated ==
  [][CohortReadAfterMove =>
       /\ MovedAndDense
       /\ \A i \in DOMAIN ret'.out :
            ret'.out[i].grade = Fresh(users, ret'.out[i].user_id)]_vars

\* C27, amended: the same, every grade reported being the grade a fresh
\* recalculate_all_ratings() would store rounded to two decimals
C27_CohortChangeKeepsRatings ==
  [][CohortReadAfterMove =>
       /\ MovedAndDense
       /\ \A i \in DOMAIN ret'.out :
            ret'.out[i].grade = Round2(Fresh(users, ret'.out[i].user_id))]_vars

\* a student was moved into a cohort that has a member with another grade,
\* every stored grade being the one a recomputation would store, and the
\* cohorts can be read next
C27_Witness ==
  /\ MovedCase
  /\ nops < MaxOps
  /\ \E v \in GroupStudents(users, ret.gid) :
       Round2(users[v].grade[1]) # Round2(users[ret.uid].grade[1])

\* ------------------------------------------------ claims: rating position
\* the last call and the one that follows are get_user_rating_position for
\* the same user, one by_group and one overall, and both return an entry
BothPositions ==
  /\ ret.op = "get_user_rating_position"
  /\ ret'.op = "get_user_rating_position"
  /\ ret'.uid = ret.uid /\ ret'.by_group # ret.by_group
  /\ ret.out # <<>> /\ ret'.out # <<>>

\* C28: when get_user_rating_position(u, by_group=True) and
\* get_user_rating_position(u, by_group=False) are called one after the
\* other, in either order, and both return an entry, the rank in the cohort
\* is at most the overall rank and both entries report the same grade
C28_CohortRankAtMostOverall ==
  [][BothPositions =>
       \A c \in {IF ret.by_group THEN ret.out[1] ELSE ret'.out[1]} :
         \A o \in {IF ret.by_group THEN ret'.out[1] ELSE ret.out[1]} :
           c.rank <= o.rank /\ c.grade = o.grade]_vars

\* the overall position of a student was returned, rank 2 with a grade that
\* is not a round number, the position in the cohort is rank 1, and the
\* second call can follow
C28_Witness ==
  /\ ret.op = "get_user_rating_position" /\ ~ret.by_group
  /\ ret.out # <<>> /\ ret.out[1].rank = 2
  /\ ret.out[1].grade % 1000 # 0
  /\ nops < MaxOps
  /\ \A c \in {get_user_rating_position(users, groups, ret.uid, TRUE).out} :
       c # <<>> /\ c[1].rank = 1

\* ------------------------------------------------ claims: excluded entries
\* C29: in the list read directly after recalculate_all_ratings(), the
\* overall one and every cohort one, every excluded entry (score <= -15) is
\* ranked after every included entry, also when the grade of an included
\* entry rounds to 0.00
C29_ExcludedRankedLast ==
  ret.op = "rating_after_recalculate" =>
    \A i, j \in DOMAIN ret.out :
      (ret.out[i].excluded /\ ~ret.out[j].excluded) =>
        ret.out[j].rank < ret.out[i].rank

\* a cohort list with an included entry of grade 0.00 and an excluded entry
C29_Witness ==
  /\ ret.op = "rating_after_recalculate" /\ ret.gid # NoGroup
  /\ \E i, j \in DOMAIN ret.out :
       /\ ret.out[i].excluded /\ ret.out[i].score <= EXCLUSION_THRESHOLD
       /\ ~ret.out[j].excluded /\ ret.out[j].grade = 0
       /\ ret.out[j].score > EXCLUSION_THRESHOLD

\* ------------------------------------------------- claims: global clear
\* C30 as stated: after clear_ratings() without a cohort no user of any
\* type holds a non-null stored grade (so that reads miss until the next
\* grade write), also when make_seminarist or make_admin was called before
\* the clear
C30_AsStated ==
  (ret.op = "clear_ratings" /\ ret.gid = NoGroup) =>
    \A u \in Uids : ~HasGrade(users, u)

====
